---- MODULE Spec2Model ----
(***************************************************************************)
(* Model of the classification / resolution pipeline of app.py:            *)
(*   find_and_read_data, expand_instansi_rows,                              *)
(*   get_ref_instansi_for_value, find_missing_instansi, separate_data and   *)
(*   the detect / manual entry / grouping steps of main.                    *)
(*                                                                         *)
(* A Python str is a sequence of one-character strings.  A pandas cell is   *)
(* a str or NaN (an empty spreadsheet cell).  A DataFrame is a record       *)
(* [columns, rows]; a row is a record carrying its index label (name) and   *)
(* one field per column; a column the frame does not have holds Absent and  *)
(* reading it raises KeyError.                                              *)
(***************************************************************************)
EXTENDS Integers, Sequences, FiniteSets, TLC

VARIABLES
    pc,                  \* position of the operation being run
    df,                  \* expand_instansi_rows: the frame being expanded
    cursor,              \* expand_instansi_rows: rows of df already iterated
    expanded_rows,       \* expand_instansi_rows: the list built by the loop
    instansi_value,      \* get_ref_instansi_for_value: its first argument
    ref_instansi_dict,   \* the reference table, an insertion-ordered dict
    manual_mapping,      \* the manual override dict
    resolved,            \* value returned by get_ref_instansi_for_value
    resolved_again,      \* value returned when the returned code is resolved
    dataframes,          \* find_missing_instansi / separate_data: the frames
    has_instansi_column, \* separate_data: the mode
    selected_instansi_name, \* separate_data: category-only mode name
    ref_instansi_code,   \* separate_data: category-only mode code
    all_instansi,        \* find_missing_instansi: the set of names collected
    scanned,             \* find_missing_instansi: names the second loop has seen
    missing_instansi,    \* find_missing_instansi: the list built by the loop
    missing_result,      \* find_missing_instansi: the returned list
    frame_idx,           \* for df in dataframes: frames already iterated
    separated_dfs,       \* separate_data: ordered dict key -> list of groups
    final_separated,     \* separate_data: the returned dict
    grid,                \* find_and_read_data: the sheet read with header=None
    headers,             \* find_and_read_data: the required field names
    sheet_name,          \* find_and_read_data: the sheet read
    scan_row,            \* find_and_read_data: rows of the sheet already iterated
    header_row,          \* find_and_read_data: the local of that name
    located,             \* find_and_read_data: what the call returned or raised
    text_inputs          \* main: the text the operator left in each code box

vars == <<pc, df, cursor, expanded_rows, instansi_value, ref_instansi_dict,
          manual_mapping, resolved, resolved_again, dataframes,
          has_instansi_column, selected_instansi_name, ref_instansi_code,
          all_instansi, scanned, missing_instansi, missing_result, frame_idx,
          separated_dfs, final_separated, grid, headers, sheet_name, scan_row,
          header_row, located, text_inputs>>

expandVars == <<df, cursor, expanded_rows>>
resolveVars == <<instansi_value, resolved, resolved_again>>
tableVars == <<ref_instansi_dict, manual_mapping>>
inputVars == <<dataframes, has_instansi_column, selected_instansi_name,
               ref_instansi_code>>
missingVars == <<all_instansi, scanned, missing_instansi, missing_result>>
separateVars == <<frame_idx, separated_dfs, final_separated>>
locateVars == <<grid, headers, sheet_name, scan_row, header_row, located>>

(***************************************************************************)
(* Bounds of the model.                                                     *)
(***************************************************************************)
MaxLen == 4        \* longest affiliation cell enumerated for the expander
MaxRows == 2       \* most rows in one frame
MaxFiles == 2      \* most frames in the list given to a run
MaxRef == 2        \* most entries of the reference table
MaxManual == 1     \* most entries of the manual override table

(***************************************************************************)
(* Values.                                                                  *)
(***************************************************************************)
NaN == <<"<NaN>">>          \* float('nan'): an empty spreadsheet cell
None == <<"<None>">>        \* Python None
Absent == <<"<absent>">>    \* the frame has no such column

\* str(x) / Series.astype(str): NaN becomes the text 'nan'
ToStr(v) == IF v = NaN THEN <<"n", "a", "n">> ELSE v

LowerLetters == <<"a","b","c","d","e","f","g","h","i","j","k","l","m",
                  "n","o","p","q","r","s","t","u","v","w","x","y","z">>
UpperLetters == <<"A","B","C","D","E","F","G","H","I","J","K","L","M",
                  "N","O","P","Q","R","S","T","U","V","W","X","Y","Z">>

\* str.upper() on one character
UpperChar(c) ==
    IF \E k \in DOMAIN LowerLetters : LowerLetters[k] = c
    THEN UpperLetters[CHOOSE k \in DOMAIN LowerLetters : LowerLetters[k] = c]
    ELSE c

\* str.upper()
Upper(s) == [k \in DOMAIN s |-> UpperChar(s[k])]

\* str.isspace() on one character (the only whitespace modelled is the blank)
IsSpace(c) == c = " "

RECURSIVE LStrip(_)
LStrip(s) == IF s # <<>> /\ IsSpace(Head(s)) THEN LStrip(Tail(s)) ELSE s

RECURSIVE RStrip(_)
RStrip(s) ==
    IF s # <<>> /\ IsSpace(s[Len(s)])
    THEN RStrip(SubSeq(s, 1, Len(s) - 1))
    ELSE s

\* str.strip()
Strip(s) == RStrip(LStrip(s))

\* sep in s
Contains(s, sep) == \E k \in DOMAIN s : s[k] = sep

\* str.split(sep) for a one-character sep: every occurrence cuts, empty
\* pieces are kept
RECURSIVE SplitFrom(_, _, _)
SplitFrom(s, sep, piece) ==
    IF s = <<>> THEN <<piece>>
    ELSE IF Head(s) = sep THEN <<piece>> \o SplitFrom(Tail(s), sep, <<>>)
    ELSE SplitFrom(Tail(s), sep, Append(piece, Head(s)))

Split(s, sep) == SplitFrom(s, sep, <<>>)

\* concatenation of a list of lists
RECURSIVE FlattenSeq(_)
FlattenSeq(xss) ==
    IF xss = <<>> THEN <<>> ELSE Head(xss) \o FlattenSeq(Tail(xss))

Range(f) == {f[k] : k \in DOMAIN f}

\* all sequences over S of length at most n
RECURSIVE SeqsUpTo(_, _)
SeqsUpTo(S, n) ==
    IF n = 0 THEN {<<>>}
    ELSE LET shorter == SeqsUpTo(S, n - 1)
         IN  shorter \cup {Append(q, x) : q \in {r \in shorter : Len(r) = n - 1}, x \in S}

(***************************************************************************)
(* DataFrames.                                                              *)
(***************************************************************************)
\* one row: its index label and its cells
Row(name, no, jenis, instansi, ref) ==
    [name |-> name, PARTICIPANT_NO |-> no, JENIS_TES |-> jenis,
     INSTANSI |-> instansi, REF_INSTANSI |-> ref]

AllColumns == {"PARTICIPANT_NO", "JENIS TES", "INSTANSI"}

\* pd.DataFrame(list of rows): an empty list gives a frame with no column
DataFrame(rows, columns) ==
    IF rows = <<>> THEN [columns |-> {}, rows |-> <<>>]
    ELSE [columns |-> columns, rows |-> rows]

\* the outcome of a call that raised KeyError instead of returning
KeyError == [columns |-> {"<KeyError>"}, rows |-> <<>>]

(***************************************************************************)
(* expand_instansi_rows                                                     *)
(***************************************************************************)
SeparatorsSemicolonFirst == <<";", ",", "|">>

\* for sep in [',', ';', '|']
Separators == <<",", ";", "|">>

\* ',' in instansi_value or ';' in instansi_value or '|' in instansi_value
HasSeparator(v) == Contains(v, ",") \/ Contains(v, ";") \/ Contains(v, "|")

\* the sep at which the for loop breaks: the first of Separators in v
FirstSeparator(v) ==
    Separators[CHOOSE k \in DOMAIN Separators :
                  /\ Contains(v, Separators[k])
                  /\ \A j \in 1..(k - 1) : ~Contains(v, Separators[j])]

InstansiListKeepEmpty(v) ==
    LET pieces == Split(v, FirstSeparator(v))
    IN  [k \in DOMAIN pieces |-> Strip(pieces[k])]

\* [inst.strip() for inst in instansi_value.split(sep) if inst.strip()]
InstansiList(v) ==
    LET pieces == Split(v, FirstSeparator(v))
    IN  SelectSeq([k \in DOMAIN pieces |-> Strip(pieces[k])],
                  LAMBDA t : t # <<>>)

ExpandRowNoCopy(row) ==
    LET v == Strip(ToStr(row.INSTANSI))
    IN  IF HasSeparator(v)
        THEN [k \in DOMAIN InstansiList(v) |->
                 Row(row.name, NaN, NaN, InstansiList(v)[k], NaN)]
        ELSE <<row>>

\* the body of the for loop: the rows appended for one row of df
ExpandRow(row) ==
    LET v == Strip(ToStr(row.INSTANSI))
    IN  IF HasSeparator(v)
        THEN [k \in DOMAIN InstansiList(v) |->
                 [row EXCEPT !.INSTANSI = InstansiList(v)[k]]]
        ELSE <<row>>

\* the whole function: KeyError when a row is read and has no INSTANSI
expand_instansi_rows(frame) ==
    IF frame.rows # <<>> /\ "INSTANSI" \notin frame.columns
    THEN KeyError
    ELSE DataFrame(FlattenSeq([k \in DOMAIN frame.rows |-> ExpandRow(frame.rows[k])]),
                   frame.columns)

(***************************************************************************)
(* Inputs of the expander runs: one-row frames holding every cell over      *)
(* ExpandChars of length at most MaxLen or the empty cell, and frames of    *)
(* at most MaxRows rows over SampleCells.                                   *)
(***************************************************************************)
Digits == <<"1", "2", "3", "4", "5", "6", "7", "8", "9">>
ExpandChars == {"A", " ", ",", ";", "|"}
ExpandCells == SeqsUpTo(ExpandChars, MaxLen) \cup {NaN}

\* row k of an expander input: the other fields differ from row to row
ExpandInputRow(k, cell) ==
    Row(k, <<"P", Digits[k]>>, <<"T", Digits[k]>>, cell, Absent)

\* cells of the frames that have several rows
SampleCells ==
    {<<"A">>, <<" ", "A", " ">>, <<"A", ",", "A">>, <<",">>, <<" ", ";", " ">>,
     <<"A", ";", "A", "|", "A">>, <<"A", ",", "A", ";", "A">>, <<>>, NaN}

ExpandFrames ==
    {[columns |-> AllColumns, rows |-> <<ExpandInputRow(1, cell)>>] :
        cell \in ExpandCells}
    \cup
    {[columns |-> AllColumns,
      rows |-> [k \in DOMAIN cells |-> ExpandInputRow(k, cells[k])]] :
        cells \in SeqsUpTo(SampleCells, MaxRows)}
    \cup
    {[columns |-> AllColumns \ {"INSTANSI"},
      rows |-> [k \in 1..n |-> ExpandInputRow(k, Absent)]] : n \in 0..MaxRows}

NoFrame == [columns |-> {}, rows |-> <<>>]
NoStr == <<>>

IdleExpand == df = NoFrame /\ cursor = 0 /\ expanded_rows = <<>>
IdleResolve == instansi_value = NoStr /\ resolved = None /\ resolved_again = None
IdleTables == ref_instansi_dict = <<>> /\ manual_mapping = [k \in {} |-> None]
IdleInput ==
    /\ dataframes = <<>>
    /\ has_instansi_column = FALSE
    /\ selected_instansi_name = None
    /\ ref_instansi_code = None
IdleMissing ==
    all_instansi = {} /\ scanned = {} /\ missing_instansi = <<>> /\ missing_result = <<>>
IdleSeparate == frame_idx = 0 /\ separated_dfs = <<>> /\ final_separated = <<>>

\* header_row = None, and no call of find_and_read_data has finished
NoHeaderRow == <<>>
NotLocated == [status |-> "none", value |-> <<>>]

IdleLocate ==
    /\ grid = <<>>
    /\ headers = <<>>
    /\ sheet_name = NoStr
    /\ scan_row = 0
    /\ header_row = NoHeaderRow
    /\ located = NotLocated
IdleMain == text_inputs = [k \in {} |-> None]

InitExpand ==
    /\ pc = "expand"
    /\ df \in ExpandFrames
    /\ cursor = 0
    /\ expanded_rows = <<>>
    /\ IdleResolve /\ IdleTables /\ IdleInput /\ IdleMissing /\ IdleSeparate /\ IdleLocate /\ IdleMain

\* one iteration of `for _, row in df.iterrows()`
ExpandStep ==
    /\ pc = "expand"
    /\ cursor < Len(df.rows)
    /\ IF "INSTANSI" \in df.columns
       THEN /\ expanded_rows' = expanded_rows \o ExpandRow(df.rows[cursor + 1])
            /\ cursor' = cursor + 1
            /\ pc' = pc
       ELSE /\ pc' = "expand_raised"
            /\ UNCHANGED <<expanded_rows, cursor>>
    /\ UNCHANGED <<df, resolveVars, tableVars, inputVars, missingVars, separateVars,
                   locateVars, text_inputs>>

\* return pd.DataFrame(expanded_rows)
ExpandReturn ==
    /\ pc = "expand"
    /\ cursor = Len(df.rows)
    /\ pc' = "expand_returned"
    /\ UNCHANGED <<expandVars, resolveVars, tableVars, inputVars, missingVars,
                   separateVars,
                   locateVars, text_inputs>>

NextExpand == ExpandStep \/ ExpandReturn

SpecExpand == InitExpand /\ [][NextExpand]_vars

(***************************************************************************)
(* Properties of expand_instansi_rows.                                      *)
(***************************************************************************)
\* the rows emitted for the source row with index label k, in order
EmittedFor(k) == SelectSeq(expanded_rows, LAMBDA e : e.name = k)

\* the text the expander inspects for a source row
Inspected(row) == Strip(ToStr(row.INSTANSI))

\* v holds one delimiter type and, apart from it, only blanks
OnlyOneDelimiterAndBlanks(v) ==
    \E d \in {",", ";", "|"} :
        /\ \E k \in DOMAIN v : v[k] = d
        /\ \A k \in DOMAIN v : v[k] \in {d, " "}

\* C1 (as stated): when the expander returns, it has emitted at least as
\* many records as it was given, delimiter-only values included.
C1_CountNeverReduced ==
    pc = "expand_returned" => Len(expanded_rows) >= Len(df.rows)

\* C1 (amended): a record whose affiliation value holds nothing but blanks
\* and one delimiter type yields no record; every other record yields at
\* least one, so the output count is at least the number of those others.
C1_CountReducedOnlyByDelimiterOnlyValues ==
    pc = "expand_returned" =>
        /\ \A k \in DOMAIN df.rows :
              (EmittedFor(k) = <<>>) <=> OnlyOneDelimiterAndBlanks(Inspected(df.rows[k]))
        /\ Len(expanded_rows) >=
              Cardinality({k \in DOMAIN df.rows :
                              ~OnlyOneDelimiterAndBlanks(Inspected(df.rows[k]))})

\* C1 witness: a returned expansion of two records, one delimiter-only and
\* dropped, the other multi-valued and expanded.
C1_Witness ==
    /\ pc = "expand_returned"
    /\ Len(df.rows) = 2
    /\ \E k \in DOMAIN df.rows :
          OnlyOneDelimiterAndBlanks(Inspected(df.rows[k])) /\ EmittedFor(k) = <<>>
    /\ \E k \in DOMAIN df.rows : Len(EmittedFor(k)) = 2

\* s occurs in v as a contiguous run of characters
IsSubstring(s, v) ==
    \E a \in 1..(Len(v) + 1) : \E b \in (a - 1)..Len(v) : SubSeq(v, a, b) = s

Polri == <<"P", "O", "L", "R", "I">>
Kemkes == <<"K", "E", "M", "K", "E", "S">>
PolriKemkesRow == Row(7, <<"P", "7">>, <<"T", "7">>, Polri \o <<",">> \o Kemkes, Absent)

\* C6: every emitted record equals its source record in every field but the
\* affiliation; for a multi-valued source the emitted affiliation is a
\* trimmed, non-empty piece of the source value; a source without delimiter
\* is emitted unchanged; "POLRI,KEMKES" gives POLRI then KEMKES.
C6_OtherFieldsPreserved ==
    /\ pc = "expand_returned" =>
          \A j \in DOMAIN expanded_rows :
              LET e == expanded_rows[j]
                  src == df.rows[e.name]
              IN  /\ e.PARTICIPANT_NO = src.PARTICIPANT_NO
                  /\ e.JENIS_TES = src.JENIS_TES
                  /\ e.REF_INSTANSI = src.REF_INSTANSI
                  /\ IF HasSeparator(Inspected(src))
                     THEN /\ e.INSTANSI # <<>>
                          /\ ~IsSpace(e.INSTANSI[1])
                          /\ ~IsSpace(e.INSTANSI[Len(e.INSTANSI)])
                          /\ IsSubstring(e.INSTANSI, src.INSTANSI)
                     ELSE e = src
    /\ pc = "expand_returned" =>
          ExpandRow(PolriKemkesRow) =
              << [PolriKemkesRow EXCEPT !.INSTANSI = Polri],
                 [PolriKemkesRow EXCEPT !.INSTANSI = Kemkes] >>

\* C6 witness: two source records, one multi-valued and emitted twice, one
\* without delimiter, untrimmed, and emitted as it is.
C6_Witness ==
    /\ pc = "expand_returned"
    /\ \E k \in DOMAIN df.rows : Len(EmittedFor(k)) = 2
    /\ \E k \in DOMAIN df.rows :
          /\ ~HasSeparator(Inspected(df.rows[k]))
          /\ df.rows[k].INSTANSI # NaN
          /\ Strip(df.rows[k].INSTANSI) # df.rows[k].INSTANSI
          /\ EmittedFor(k) = <<df.rows[k]>>

\* the delimiter the spec's precedence picks: comma, then semicolon, then pipe
ChosenDelimiter(v) ==
    IF \E k \in DOMAIN v : v[k] = "," THEN ","
    ELSE IF \E k \in DOMAIN v : v[k] = ";" THEN ";" ELSE "|"

\* the positions at which a piece of v between occurrences of d starts
PieceStarts(v, d) == {a \in 1..(Len(v) + 1) : a = 1 \/ v[a - 1] = d}

\* the last position of the piece that starts at a
PieceEnd(v, d, a) ==
    CHOOSE b \in (a - 1)..Len(v) :
        /\ \A k \in a..b : v[k] # d
        /\ b = Len(v) \/ v[b + 1] = d

\* the non-blank pieces of v between occurrences of d, trimmed, left to right
NonBlankStarts(v, d) ==
    {a \in PieceStarts(v, d) : Strip(SubSeq(v, a, PieceEnd(v, d, a))) # <<>>}

\* C7: a multi-valued record is split on one delimiter type only, comma
\* before semicolon before pipe: the emitted affiliations are, in order, the
\* trimmed non-blank pieces between occurrences of that delimiter, so the
\* other delimiters stay inside the tokens.
C7_OneDelimiterByPrecedence ==
    pc = "expand_returned" =>
        \A k \in DOMAIN df.rows :
            LET v == Inspected(df.rows[k])
                d == ChosenDelimiter(v)
                starts == NonBlankStarts(v, d)
                out == EmittedFor(k)
            IN  HasSeparator(v) =>
                  /\ Len(out) = Cardinality(starts)
                  /\ \A a \in starts :
                        out[Cardinality({x \in starts : x <= a})].INSTANSI =
                            Strip(SubSeq(v, a, PieceEnd(v, d, a)))
                  /\ \A j \in DOMAIN out : ~Contains(out[j].INSTANSI, d)

\* C7 witness: a value with a comma and a semicolon is split on the comma
\* and a token keeps the semicolon; a value with a semicolon and a pipe is
\* split on the semicolon and a token keeps the pipe.
C7_Witness ==
    /\ pc = "expand_returned"
    /\ \E k \in DOMAIN df.rows :
          /\ Contains(Inspected(df.rows[k]), ",")
          /\ Len(EmittedFor(k)) = 2
          /\ \E j \in 1..2 : Contains(EmittedFor(k)[j].INSTANSI, ";")
    /\ \E k \in DOMAIN df.rows :
          /\ ~Contains(Inspected(df.rows[k]), ",")
          /\ Len(EmittedFor(k)) = 2
          /\ \E j \in 1..2 : Contains(EmittedFor(k)[j].INSTANSI, "|")

(***************************************************************************)
(* get_ref_instansi_for_value                                               *)
(*                                                                         *)
(* ref_instansi_dict is an insertion-ordered dict: a sequence of entries    *)
(* [name, code] with distinct names, iterated in order by .items().         *)
(* manual_mapping is only read by key, so it is a function from its keys.   *)
(***************************************************************************)
Entry(name, code) == [name |-> name, code |-> code]

\* code == instansi_value or name.upper() == instansi_value.upper()
RefMatches(e, value) == e.code = value \/ Upper(e.name) = Upper(value)

RefMatchesNameOnly(e, value) == Upper(e.name) = Upper(value)

\* the reference half of the lookup: the code of the first entry of
\* .items() that matches, None when the loop ends without a match
RefLookup(value, ref) ==
    IF \E k \in DOMAIN ref : RefMatches(ref[k], value)
    THEN ref[CHOOSE k \in DOMAIN ref :
                /\ RefMatches(ref[k], value)
                /\ \A j \in 1..(k - 1) : ~RefMatches(ref[j], value)].code
    ELSE None

RefLookupNameOnly(value, ref) ==
    IF \E k \in DOMAIN ref : RefMatchesNameOnly(ref[k], value)
    THEN ref[CHOOSE k \in DOMAIN ref :
                /\ RefMatchesNameOnly(ref[k], value)
                /\ \A j \in 1..(k - 1) : ~RefMatchesNameOnly(ref[j], value)].code
    ELSE None

ResolveNameOnly(value, ref, manual) ==
    IF value \in DOMAIN manual THEN manual[value] ELSE RefLookupNameOnly(value, ref)

ResolveReferenceFirst(value, ref, manual) ==
    IF RefLookup(value, ref) # None THEN RefLookup(value, ref)
    ELSE IF value \in DOMAIN manual THEN manual[value] ELSE None

get_ref_instansi_for_value(value, ref, manual) ==
    IF manual # <<>> /\ value \in DOMAIN manual
    THEN manual[value]
    ELSE IF ref # <<>> THEN RefLookup(value, ref) ELSE None

(***************************************************************************)
(* Inputs of the resolver runs.                                             *)
(***************************************************************************)
ResolveStrings == {<<"A">>, <<"a">>, <<"B">>}

\* dicts of at most n entries with distinct names
RefDicts(names, codes, n) ==
    {d \in SeqsUpTo({Entry(nm, cd) : nm \in names, cd \in codes}, n) :
        \A j, k \in DOMAIN d : j # k => d[j].name # d[k].name}

ManualDicts(names, codes, n) ==
    UNION {[D -> codes] : D \in {X \in SUBSET names : Cardinality(X) <= n}}

InitResolve ==
    /\ pc = "resolve"
    /\ instansi_value \in ResolveStrings
    /\ ref_instansi_dict \in RefDicts(ResolveStrings, ResolveStrings, MaxRef)
    /\ manual_mapping \in ManualDicts(ResolveStrings, ResolveStrings, MaxManual)
    /\ resolved = None
    /\ resolved_again = None
    /\ IdleExpand /\ IdleInput /\ IdleMissing /\ IdleSeparate /\ IdleLocate /\ IdleMain

\* resolve(x, M, R)
Resolve ==
    /\ pc = "resolve"
    /\ resolved' = get_ref_instansi_for_value(instansi_value, ref_instansi_dict,
                                              manual_mapping)
    /\ pc' = "resolved"
    /\ UNCHANGED <<instansi_value, resolved_again, expandVars, tableVars,
                   inputVars, missingVars, separateVars,
                   locateVars, text_inputs>>

\* resolve(c, M, R) for the code c the first call returned
ResolveAgain ==
    /\ pc = "resolved"
    /\ resolved # None
    /\ resolved_again' = get_ref_instansi_for_value(resolved, ref_instansi_dict,
                                                    manual_mapping)
    /\ pc' = "resolved_again"
    /\ UNCHANGED <<instansi_value, resolved, expandVars, tableVars, inputVars,
                   missingVars, separateVars,
                   locateVars, text_inputs>>

NextResolve == Resolve \/ ResolveAgain

SpecResolve == InitResolve /\ [][NextResolve]_vars

(***************************************************************************)
(* Properties of get_ref_instansi_for_value.                                *)
(***************************************************************************)
\* C2 (as stated): resolving the code a resolution returned gives that code
\* again, whatever the tables.
C2_ResolveIdempotent ==
    pc = "resolved_again" => resolved_again = resolved

\* C2 (amended): a code c obtained from the reference table (the name is not
\* a manual override key) resolves to itself when c is not a manual override
\* key and every reference entry whose name equals c ignoring case carries
\* the code c.
C2_ResolveIdempotentOnReferenceCodes ==
    pc = "resolved_again" =>
        ( ( /\ instansi_value \notin DOMAIN manual_mapping
            /\ resolved \notin DOMAIN manual_mapping
            /\ \A k \in DOMAIN ref_instansi_dict :
                  Upper(ref_instansi_dict[k].name) = Upper(resolved)
                      => ref_instansi_dict[k].code = resolved )
          => resolved_again = resolved )

\* C2 witness: a name resolved through the reference table by its name to a
\* code different from the name, with a manual table that is not empty, and
\* the code resolved again to itself.
C2_Witness ==
    /\ pc = "resolved_again"
    /\ instansi_value \notin DOMAIN manual_mapping
    /\ resolved \notin DOMAIN manual_mapping
    /\ DOMAIN manual_mapping # {}
    /\ Len(ref_instansi_dict) = 2
    /\ \A k \in DOMAIN ref_instansi_dict :
          Upper(ref_instansi_dict[k].name) = Upper(resolved)
              => ref_instansi_dict[k].code = resolved
    /\ resolved # instansi_value
    /\ resolved_again = resolved

KemkesLower == <<"k", "e", "m", "k", "e", "s">>
Code001 == <<"0", "0", "1">>

\* C4: a manual override of the name wins over the reference table; without
\* one, the result is the code of the first reference entry whose code is
\* the name exactly or whose name is the name ignoring case; with neither,
\* None.  {"KEMKES": "001"} resolves "kemkes" to "001".
C4_ResolvePrecedence ==
    /\ pc \in {"resolved", "resolved_again"} =>
          LET hit(k) ==
                  \/ ref_instansi_dict[k].code = instansi_value
                  \/ Upper(ref_instansi_dict[k].name) = Upper(instansi_value)
          IN  /\ instansi_value \in DOMAIN manual_mapping
                    => resolved = manual_mapping[instansi_value]
              /\ instansi_value \notin DOMAIN manual_mapping =>
                    /\ (\E k \in DOMAIN ref_instansi_dict : hit(k)) =>
                          \E k \in DOMAIN ref_instansi_dict :
                              /\ hit(k)
                              /\ \A j \in 1..(k - 1) : ~hit(j)
                              /\ resolved = ref_instansi_dict[k].code
                    /\ (\A k \in DOMAIN ref_instansi_dict : ~hit(k)) => resolved = None
    /\ pc = "resolved" =>
          get_ref_instansi_for_value(KemkesLower, <<Entry(Kemkes, Code001)>>,
                                     [k \in {} |-> None]) = Code001

\* C4 witness: the name is a manual override key and also matches a
\* reference entry with another code; the override code was returned.
C4_Witness ==
    /\ pc = "resolved"
    /\ instansi_value \in DOMAIN manual_mapping
    /\ \E k \in DOMAIN ref_instansi_dict :
          /\ RefMatches(ref_instansi_dict[k], instansi_value)
          /\ ref_instansi_dict[k].code # manual_mapping[instansi_value]
    /\ resolved = manual_mapping[instansi_value]

(***************************************************************************)
(* sorted() on str: lexicographic by code point.                            *)
(***************************************************************************)
CodePointOrder ==
    <<" ", ",", "0">> \o Digits \o <<";">> \o UpperLetters \o <<"_">>
        \o LowerLetters \o <<"|">>

\* ord(c), up to an order-preserving renumbering
Ord(c) == CHOOSE k \in DOMAIN CodePointOrder : CodePointOrder[k] = c

\* a < b on str
StrLess(a, b) ==
    \/ Len(a) < Len(b) /\ SubSeq(b, 1, Len(a)) = a
    \/ \E k \in 1..Len(a) :
          /\ k <= Len(b)
          /\ SubSeq(a, 1, k - 1) = SubSeq(b, 1, k - 1)
          /\ Ord(a[k]) < Ord(b[k])

\* insertion of x into a sorted list, after the elements not greater than it
RECURSIVE InsertSorted(_, _)
InsertSorted(x, xs) ==
    IF xs = <<>> THEN <<x>>
    ELSE IF StrLess(x, Head(xs)) THEN <<x>> \o xs
    ELSE <<Head(xs)>> \o InsertSorted(x, Tail(xs))

\* sorted(xs)
RECURSIVE Sorted(_)
Sorted(xs) ==
    IF xs = <<>> THEN <<>> ELSE InsertSorted(xs[Len(xs)], Sorted(SubSeq(xs, 1, Len(xs) - 1)))

(***************************************************************************)
(* The cleaning both find_missing_instansi and separate_data apply to the   *)
(* expanded frame.                                                          *)
(***************************************************************************)
NanText == <<"n", "a", "n">>

\* expanded_df['INSTANSI'].astype(str).str.strip(), then the three filters
CleanRows(rows) ==
    SelectSeq([k \in DOMAIN rows |->
                  [rows[k] EXCEPT !.INSTANSI = Strip(ToStr(rows[k].INSTANSI))]],
              LAMBDA r : r.INSTANSI # <<>> /\ r.INSTANSI # NanText)

\* the cleaned, expanded frame of one input frame; KeyError when the
\* expander raises or returns a frame without an INSTANSI column
CleanExpanded(frame) ==
    LET e == expand_instansi_rows(frame)
    IN  IF e = KeyError \/ "INSTANSI" \notin e.columns THEN KeyError
        ELSE [columns |-> e.columns, rows |-> CleanRows(e.rows)]

(***************************************************************************)
(* Inputs of the detector and grouping runs: lists of one frame of at most  *)
(* MaxRows rows over all cell pairs, and lists of at most MaxFiles frames   *)
(* drawn from SmallFrames.                                                  *)
(***************************************************************************)
GroupCells ==
    {<<"A">>, <<"X">>, <<"A", ",", "X">>, <<",">>, <<" ", "A", " ">>,
     <<"A", "_", "B">>, NaN}
CategoryCells == {<<"C">>, <<"B", "_", "C">>, NaN}

Cells(instansi, jenis) == [instansi |-> instansi, jenis |-> jenis]
CellPairs == {Cells(i, j) : i \in GroupCells, j \in CategoryCells}

FrameShape(columns, cells) == [columns |-> columns, cells |-> cells]

SmallFrames ==
    {FrameShape(AllColumns, <<Cells(<<"A">>, <<"C">>)>>),
     FrameShape(AllColumns, <<Cells(<<"X">>, <<"C">>), Cells(<<"A">>, <<"C">>)>>),
     FrameShape(AllColumns, <<Cells(<<"A", "_", "B">>, <<"C">>)>>),
     FrameShape(AllColumns, <<Cells(<<"A">>, <<"B", "_", "C">>)>>),
     FrameShape(AllColumns, <<Cells(<<"a", ",", "X">>, NaN)>>),
     FrameShape(AllColumns, <<Cells(<<",">>, <<"C">>)>>),
     FrameShape(AllColumns, <<Cells(NaN, <<"C">>)>>),
     FrameShape(AllColumns, <<>>),
     FrameShape(AllColumns \ {"JENIS TES"}, <<Cells(<<"A">>, Absent)>>),
     FrameShape(AllColumns \ {"INSTANSI"}, <<Cells(Absent, <<"C">>)>>)}

\* the frame find_and_read_data returns for file f
InputFrame(f, shape) ==
    [columns |-> shape.columns,
     rows |-> [k \in DOMAIN shape.cells |->
                  Row(k, <<"P", Digits[f], Digits[k]>>,
                      IF "JENIS TES" \in shape.columns THEN shape.cells[k].jenis ELSE Absent,
                      IF "INSTANSI" \in shape.columns THEN shape.cells[k].instansi ELSE Absent,
                      Absent)]]

InputLists ==
    {<<InputFrame(1, FrameShape(AllColumns, cells))>> :
        cells \in SeqsUpTo(CellPairs, MaxRows)}
    \cup
    {[f \in DOMAIN shapes |-> InputFrame(f, shapes[f])] :
        shapes \in SeqsUpTo(SmallFrames, MaxFiles)}

\* the detector reads only the INSTANSI column: one category is enough
MissingLists ==
    {<<InputFrame(1, FrameShape(AllColumns, cells))>> :
        cells \in SeqsUpTo({Cells(i, <<"C">>) : i \in GroupCells \cup {<<"a">>}}, MaxRows)}
    \cup
    {[f \in DOMAIN shapes |-> InputFrame(f, shapes[f])] :
        shapes \in SeqsUpTo(SmallFrames, MaxFiles)}

InputRefs == RefDicts({<<"A">>, <<"X">>}, {<<"1">>}, MaxRef)
GroupRefs == RefDicts({<<"A">>}, {<<"1">>}, MaxRef)
InputManuals == ManualDicts({<<"X">>}, {<<"9">>}, MaxManual)

(***************************************************************************)
(* find_missing_instansi                                                    *)
(***************************************************************************)
Outcome(status, value) == [status |-> status, value |-> value]

\* found, after the loop over ref_instansi_dict.items()
Found(instansi, ref) ==
    ref # <<>> /\ \E k \in DOMAIN ref : RefMatches(ref[k], instansi)

ReturnUnsorted(missing) == missing

\* return sorted(missing_instansi)
MissingReturnValue(missing) == Sorted(missing)

\* some order in which a set is iterated
RECURSIVE SomeOrder(_)
SomeOrder(S) ==
    IF S = {} THEN <<>>
    ELSE LET x == CHOOSE y \in S : TRUE IN <<x>> \o SomeOrder(S \ {x})

\* the names one frame adds to all_instansi
NamesOf(frame) == {r.INSTANSI : r \in Range(CleanExpanded(frame).rows)}

\* the whole function
find_missing_instansi(dfs, ref) ==
    LET withColumn == {k \in DOMAIN dfs : "INSTANSI" \in dfs[k].columns}
        all == UNION {NamesOf(dfs[k]) : k \in withColumn}
    IN  IF \E k \in withColumn : CleanExpanded(dfs[k]) = KeyError
        THEN Outcome("KeyError", <<>>)
        ELSE Outcome("returned",
                     MissingReturnValue(SomeOrder({n \in all : ~Found(n, ref)})))

InitMissing ==
    /\ pc = "find_missing"
    /\ dataframes \in MissingLists
    /\ ref_instansi_dict \in InputRefs
    /\ manual_mapping = [k \in {} |-> None]
    /\ has_instansi_column = TRUE
    /\ selected_instansi_name = None
    /\ ref_instansi_code = None
    /\ frame_idx = 0
    /\ all_instansi = {}
    /\ scanned = {}
    /\ missing_instansi = <<>>
    /\ missing_result = <<>>
    /\ separated_dfs = <<>>
    /\ final_separated = <<>>
    /\ IdleExpand /\ IdleResolve /\ IdleLocate /\ IdleMain

\* one iteration of `for df in dataframes`
MissingCollect ==
    /\ pc = "find_missing"
    /\ frame_idx < Len(dataframes)
    /\ LET frame == dataframes[frame_idx + 1]
       IN  IF "INSTANSI" \notin frame.columns
           THEN /\ frame_idx' = frame_idx + 1
                /\ UNCHANGED <<pc, all_instansi>>
           ELSE IF CleanExpanded(frame) = KeyError
           THEN /\ pc' = "find_missing_raised"
                /\ UNCHANGED <<frame_idx, all_instansi>>
           ELSE /\ all_instansi' = all_instansi \cup NamesOf(frame)
                /\ frame_idx' = frame_idx + 1
                /\ pc' = pc
    /\ UNCHANGED <<scanned, missing_instansi, missing_result, expandVars,
                   resolveVars, tableVars, inputVars, separated_dfs,
                   final_separated,
                   locateVars, text_inputs>>

\* one iteration of `for instansi in all_instansi`: a set is iterated in an
\* order the program does not control
MissingScan ==
    /\ pc = "find_missing"
    /\ frame_idx = Len(dataframes)
    /\ \E instansi \in all_instansi \ scanned :
          /\ scanned' = scanned \cup {instansi}
          /\ missing_instansi' =
                IF Found(instansi, ref_instansi_dict) THEN missing_instansi
                ELSE Append(missing_instansi, instansi)
    /\ UNCHANGED <<pc, all_instansi, missing_result, frame_idx, expandVars,
                   resolveVars, tableVars, inputVars, separated_dfs,
                   final_separated,
                   locateVars, text_inputs>>

\* return sorted(missing_instansi)
MissingReturn ==
    /\ pc = "find_missing"
    /\ frame_idx = Len(dataframes)
    /\ scanned = all_instansi
    /\ missing_result' = MissingReturnValue(missing_instansi)
    /\ pc' = "find_missing_returned"
    /\ UNCHANGED <<all_instansi, scanned, missing_instansi, frame_idx,
                   expandVars, resolveVars, tableVars, inputVars, separated_dfs,
                   final_separated,
                   locateVars, text_inputs>>

NextMissing == MissingCollect \/ MissingScan \/ MissingReturn

SpecMissing == InitMissing /\ [][NextMissing]_vars

(***************************************************************************)
(* Properties of find_missing_instansi.                                     *)
(***************************************************************************)
\* the frames of dfs in any order, the rows of each in any order
Shuffles(dfs) ==
    LET rowOrders(frame) ==
            {[columns |-> frame.columns,
              rows |-> [k \in DOMAIN frame.rows |-> frame.rows[p[k]]]] :
                p \in Permutations(DOMAIN frame.rows)}
    IN  {g \in [DOMAIN dfs -> UNION {rowOrders(dfs[k]) : k \in DOMAIN dfs}] :
            \E p \in Permutations(DOMAIN dfs) :
                \A k \in DOMAIN dfs : g[k] \in rowOrders(dfs[p[k]])}

\* C5: the list find_missing returns is in ascending lexical order without
\* duplicate, and is the list returned for every reordering of the record
\* sets and of the records inside them.
C5_MissingSortedAndOrderIndependent ==
    pc = "find_missing_returned" =>
        /\ \A j, k \in DOMAIN missing_result :
              j < k => StrLess(missing_result[j], missing_result[k])
        /\ \A g \in Shuffles(dataframes) :
              find_missing_instansi(g, ref_instansi_dict) =
                  Outcome("returned", missing_result)

\* C5 witness: two record sets, names met in descending order, and a
\* returned list of at least two names, an upper-case one before a
\* lower-case one.
C5_Witness ==
    /\ pc = "find_missing_returned"
    /\ Len(dataframes) = 2
    /\ Len(missing_result) >= 2
    /\ Len(missing_instansi) >= 2
    /\ StrLess(missing_instansi[2], missing_instansi[1])
    /\ \E k \in DOMAIN missing_result : missing_result[k] = <<"a">>

(***************************************************************************)
(* separate_data                                                            *)
(*                                                                         *)
(* separated_dfs is an insertion-ordered dict: a sequence of entries        *)
(* [key, groups], groups the list of group frames appended under the key.   *)
(***************************************************************************)
NoInstansi == <<"N", "O", "_", "I", "N", "S", "T", "A", "N", "S", "I">>

\* f"{instansi}_{jenis_tes}"
BucketKey(instansi, jenis) == instansi \o <<"_">> \o ToStr(jenis)

\* the order in which groupby yields its groups: sorted by the group key
GroupKeyLess(a, b) ==
    \/ StrLess(a[1], b[1])
    \/ a[1] = b[1] /\ StrLess(a[2], b[2])

RECURSIVE SortGroupKeys(_)
SortGroupKeys(S) ==
    IF S = {} THEN <<>>
    ELSE LET m == CHOOSE x \in S : \A y \in S : x = y \/ GroupKeyLess(x, y)
         IN  <<m>> \o SortGroupKeys(S \ {m})

\* expanded_df.groupby(['JENIS TES', 'INSTANSI']): one group per pair met,
\* rows in frame order; a row whose JENIS TES is NaN is in no group
\* (groupby drops NA keys)
GroupByJenisInstansi(rows) ==
    LET keys == SortGroupKeys({<<r.JENIS_TES, r.INSTANSI>> :
                                  r \in {x \in Range(rows) : x.JENIS_TES # NaN}})
    IN  [k \in DOMAIN keys |->
            [jenis |-> keys[k][1], instansi |-> keys[k][2],
             rows |-> SelectSeq(rows, LAMBDA r : r.JENIS_TES = keys[k][1]
                                                 /\ r.INSTANSI = keys[k][2])]]

\* df.groupby('JENIS TES')
GroupByJenis(rows) ==
    LET keys == SortGroupKeys({<<r.JENIS_TES, <<>>>> :
                                  r \in {x \in Range(rows) : x.JENIS_TES # NaN}})
    IN  [k \in DOMAIN keys |->
            [jenis |-> keys[k][1],
             rows |-> SelectSeq(rows, LAMBDA r : r.JENIS_TES = keys[k][1])]]

AppendGroupOverwrite(sep, key, group) ==
    IF \E k \in DOMAIN sep : sep[k].key = key
    THEN [k \in DOMAIN sep |->
             IF sep[k].key = key THEN [sep[k] EXCEPT !.groups = <<group>>]
             ELSE sep[k]]
    ELSE Append(sep, [key |-> key, groups |-> <<group>>])

\* if key not in separated_dfs: separated_dfs[key] = []
\* separated_dfs[key].append(group_df)
AppendGroup(sep, key, group) ==
    IF \E k \in DOMAIN sep : sep[k].key = key
    THEN [k \in DOMAIN sep |->
             IF sep[k].key = key THEN [sep[k] EXCEPT !.groups = Append(@, group)]
             ELSE sep[k]]
    ELSE Append(sep, [key |-> key, groups |-> <<group>>])

\* the loop over the groups of one frame, affiliation mode
RECURSIVE AppendPairGroups(_, _)
AppendPairGroups(sep, groups) ==
    IF groups = <<>> THEN sep
    ELSE AppendPairGroups(
             AppendGroup(sep, BucketKey(Head(groups).instansi, Head(groups).jenis),
                         Head(groups).rows),
             Tail(groups))

\* the loop over the groups of one frame, category-only mode
RECURSIVE AppendJenisGroups(_, _, _)
AppendJenisGroups(sep, groups, name) ==
    IF groups = <<>> THEN sep
    ELSE AppendJenisGroups(
             AppendGroup(sep, BucketKey(name, Head(groups).jenis), Head(groups).rows),
             Tail(groups), name)

FrameResult(status, sep, frame) == [status |-> status, sep |-> sep, frame |-> frame]

\* the body of `for df in dataframes` when has_instansi_column: "KeyError"
\* is an exception that leaves separate_data, "ok" the end of the iteration
\* (by continue, by the except clause, or by falling through)
AffiliationFrame(sep, frame, ref, manual) ==
    LET ce == CleanExpanded(frame)
        withRef == [k \in DOMAIN ce.rows |->
                       [ce.rows[k] EXCEPT !.REF_INSTANSI =
                           get_ref_instansi_for_value(ce.rows[k].INSTANSI, ref, manual)]]
    IN  IF ce = KeyError THEN FrameResult("KeyError", sep, frame)
        ELSE IF ce.rows = <<>> THEN FrameResult("ok", sep, frame)
        ELSE IF "JENIS TES" \notin ce.columns THEN FrameResult("ok", sep, frame)
        ELSE FrameResult("ok", AppendPairGroups(sep, GroupByJenisInstansi(withRef)), frame)

\* selected_instansi_name or "NO_INSTANSI"
NameOrDefault(name) == IF name = None \/ name = <<>> THEN NoInstansi ELSE name

\* the body of `for df in dataframes` otherwise: df itself gets the two
\* columns before groupby may raise
CategoryFrame(sep, frame, name, code) ==
    LET marked == [columns |-> frame.columns \cup {"INSTANSI", "REF_INSTANSI"},
                   rows |-> [k \in DOMAIN frame.rows |->
                                [frame.rows[k] EXCEPT !.INSTANSI = NameOrDefault(name),
                                                      !.REF_INSTANSI = code]]]
    IN  IF "JENIS TES" \notin frame.columns THEN FrameResult("KeyError", sep, marked)
        ELSE FrameResult("ok",
                         AppendJenisGroups(sep, GroupByJenis(marked.rows),
                                           NameOrDefault(name)),
                         marked)

SeparateFrameResult(sep, frame, mode, name, code, ref, manual) ==
    IF mode THEN AffiliationFrame(sep, frame, ref, manual)
    ELSE CategoryFrame(sep, frame, name, code)

\* pd.concat(df_list, ignore_index=True): the rows of the groups in order,
\* relabelled by position
Concat(groups) ==
    LET rows == FlattenSeq(groups)
    IN  [k \in DOMAIN rows |-> [rows[k] EXCEPT !.name = k]]

\* final_separated
Combine(sep) == [k \in DOMAIN sep |-> [key |-> sep[k].key, rows |-> Concat(sep[k].groups)]]

\* the whole function, from frame number k on
RECURSIVE SeparateFrom(_, _, _, _, _, _, _, _)
SeparateFrom(sep, dfs, k, mode, name, code, ref, manual) ==
    IF k > Len(dfs) THEN Outcome("returned", Combine(sep))
    ELSE LET r == SeparateFrameResult(sep, dfs[k], mode, name, code, ref, manual)
         IN  IF r.status = "KeyError" THEN Outcome("KeyError", <<>>)
             ELSE SeparateFrom(r.sep, dfs, k + 1, mode, name, code, ref, manual)

separate_data(dfs, mode, name, code, ref, manual) ==
    SeparateFrom(<<>>, dfs, 1, mode, name, code, ref, manual)

InitSeparate ==
    /\ pc = "separate"
    /\ dataframes \in InputLists
    /\ has_instansi_column \in BOOLEAN
    /\ IF has_instansi_column
       THEN /\ ref_instansi_dict \in GroupRefs
            /\ manual_mapping \in InputManuals
            /\ selected_instansi_name = None
            /\ ref_instansi_code = None
       ELSE /\ ref_instansi_dict = <<>>
            /\ manual_mapping = [k \in {} |-> None]
            /\ \E choice \in {<<None, None>>, <<<<"Z">>, <<"7">>>>} :
                   /\ selected_instansi_name = choice[1]
                   /\ ref_instansi_code = choice[2]
    /\ frame_idx = 0
    /\ separated_dfs = <<>>
    /\ final_separated = <<>>
    /\ IdleExpand /\ IdleResolve /\ IdleMissing /\ IdleLocate /\ IdleMain

\* one iteration of `for df in dataframes`
SeparateFrame ==
    /\ pc = "separate"
    /\ frame_idx < Len(dataframes)
    /\ LET r == SeparateFrameResult(separated_dfs, dataframes[frame_idx + 1],
                                    has_instansi_column, selected_instansi_name,
                                    ref_instansi_code, ref_instansi_dict,
                                    manual_mapping)
       IN  /\ dataframes' = [dataframes EXCEPT ![frame_idx + 1] = r.frame]
           /\ separated_dfs' = r.sep
           /\ IF r.status = "KeyError"
              THEN pc' = "separate_raised" /\ frame_idx' = frame_idx
              ELSE pc' = pc /\ frame_idx' = frame_idx + 1
    /\ UNCHANGED <<has_instansi_column, selected_instansi_name, ref_instansi_code,
                   final_separated, expandVars, resolveVars, tableVars, missingVars,
                   locateVars, text_inputs>>

\* the loop that combines the groups of each key, and the return
SeparateReturn ==
    /\ pc = "separate"
    /\ frame_idx = Len(dataframes)
    /\ final_separated' = Combine(separated_dfs)
    /\ pc' = "separate_returned"
    /\ UNCHANGED <<inputVars, frame_idx, separated_dfs, expandVars, resolveVars,
                   tableVars, missingVars,
                   locateVars, text_inputs>>

NextSeparate == SeparateFrame \/ SeparateReturn

SpecSeparate == InitSeparate /\ [][NextSeparate]_vars

(***************************************************************************)
(* Properties of separate_data.                                             *)
(***************************************************************************)
\* a record without its index label, which pd.concat rewrites
Unlabelled(r) == [r EXCEPT !.name = 0]

\* how many times record v occurs among rows, index labels aside
Occurrences(rows, v) == Cardinality({k \in DOMAIN rows : Unlabelled(rows[k]) = v})

\* two bucket mappings have the same keys and, under each key, the same
\* multiset of records
SameBuckets(x, y) ==
    /\ {x[k].key : k \in DOMAIN x} = {y[k].key : k \in DOMAIN y}
    /\ \A j \in DOMAIN x : \A k \in DOMAIN y :
          x[j].key = y[k].key =>
              /\ Len(x[j].rows) = Len(y[k].rows)
              /\ \A i \in DOMAIN x[j].rows :
                    Occurrences(x[j].rows, Unlabelled(x[j].rows[i])) =
                    Occurrences(y[k].rows, Unlabelled(x[j].rows[i]))

\* the frames of dfs in any order
FrameOrders(dfs) ==
    {[k \in DOMAIN dfs |-> dfs[p[k]]] : p \in Permutations(DOMAIN dfs)}

\* what the run of separate_data in progress has produced when it is over
Grouped ==
    IF pc = "separate_returned" THEN Outcome("returned", final_separated)
    ELSE Outcome("KeyError", <<>>)

\* separate_data on other frames, with the arguments of the run in progress
Regrouped(dfs) ==
    separate_data(dfs, has_instansi_column, selected_instansi_name,
                  ref_instansi_code, ref_instansi_dict, manual_mapping)

\* C3: grouping the record sets in another file order gives the same bucket
\* keys and, under every key, the same multiset of records (and fails when
\* the first order fails).
C3_GroupingCommutes ==
    pc \in {"separate_returned", "separate_raised"} =>
        \A g \in FrameOrders(dataframes) :
            /\ Regrouped(g).status = Grouped.status
            /\ SameBuckets(Regrouped(g).value, Grouped.value)

\* C3 witness: two record sets that put records into the same bucket, whose
\* two file orders give that bucket its rows in different orders.
C3_Witness ==
    /\ pc = "separate_returned"
    /\ Len(dataframes) = 2
    /\ \E k \in DOMAIN final_separated : Len(final_separated[k].rows) >= 2
    /\ Regrouped(<<dataframes[2], dataframes[1]>>).value # final_separated

\* the cleaned, expanded records of the frames that have both columns
CleanRecords ==
    FlattenSeq([f \in DOMAIN dataframes |->
                   IF AllColumns \subseteq dataframes[f].columns
                      /\ CleanExpanded(dataframes[f]) # KeyError
                   THEN CleanExpanded(dataframes[f]).rows
                   ELSE <<>>])

\* C8: in affiliation mode, all records of a bucket share one (affiliation,
\* category) pair, the bucket is named after that pair, and it holds as many
\* records as the input files have cleaned, expanded records of that pair.
C8_BucketHoldsExactlyItsPair ==
    (pc = "separate_returned" /\ has_instansi_column) =>
        \A b \in DOMAIN final_separated :
            LET rows == final_separated[b].rows
            IN  /\ \A i, j \in DOMAIN rows :
                      /\ rows[i].INSTANSI = rows[j].INSTANSI
                      /\ rows[i].JENIS_TES = rows[j].JENIS_TES
                /\ rows # <<>>
                /\ final_separated[b].key = BucketKey(rows[1].INSTANSI, rows[1].JENIS_TES)
                /\ Len(rows) =
                      Cardinality({k \in DOMAIN CleanRecords :
                                      /\ CleanRecords[k].INSTANSI = rows[1].INSTANSI
                                      /\ CleanRecords[k].JENIS_TES = rows[1].JENIS_TES})

\* C9: in affiliation mode, every cleaned, expanded record whose affiliation
\* resolves to nothing is in the bucket of its (affiliation, category) pair
\* with REF_INSTANSI None, and the buckets together hold as many records as
\* there are cleaned, expanded input records.
C9_UnresolvedKeptAndCountPreserved ==
    (pc = "separate_returned" /\ has_instansi_column) =>
        /\ \A k \in DOMAIN CleanRecords :
              LET r == CleanRecords[k]
              IN  get_ref_instansi_for_value(r.INSTANSI, ref_instansi_dict,
                                             manual_mapping) = None
                  => \E b \in DOMAIN final_separated :
                        /\ final_separated[b].key = BucketKey(r.INSTANSI, r.JENIS_TES)
                        /\ \E i \in DOMAIN final_separated[b].rows :
                              Unlabelled(final_separated[b].rows[i]) =
                                  Unlabelled([r EXCEPT !.REF_INSTANSI = None])
        /\ Len(FlattenSeq([b \in DOMAIN final_separated |-> final_separated[b].rows]))
              = Len(CleanRecords)

\* a record set that lacks the category field, or the affiliation field in
\* affiliation mode
Malformed(frame) ==
    \/ "JENIS TES" \notin frame.columns
    \/ has_instansi_column /\ "INSTANSI" \notin frame.columns

\* C10: grouping a list that holds a malformed record set does not abort and
\* gives what grouping the list without the malformed record sets gives.
C10_MalformedSetSkipped ==
    (pc \in {"separate_returned", "separate_raised"}
        /\ \E f \in DOMAIN dataframes : Malformed(dataframes[f]))
    => Grouped = Regrouped(SelectSeq(dataframes, LAMBDA frame : ~Malformed(frame)))

(***************************************************************************)
(* find_and_read_data                                                       *)
(*                                                                         *)
(* The sheet read with header=None is a sequence of rows, each a sequence   *)
(* of cells; the row at position p carries the index label p - 1.  The      *)
(* frame returned is a record [columns, rows]: columns is the sequence of   *)
(* column labels, and a row is a record [name, cells] of its index label    *)
(* and its cells.                                                           *)
(***************************************************************************)
NO_PESERTA == <<"N", "O", "_", "P", "E", "S", "E", "R", "T", "A">>
NAMA == <<"N", "A", "M", "A">>
JENIS_TES == <<"J", "E", "N", "I", "S", " ", "T", "E", "S">>
LOKASI_UJIAN ==
    <<"L", "O", "K", "A", "S", "I", " ", "U", "J", "I", "A", "N">>

\* headers of a run without an INSTANSI column
CategoryHeaders == <<NO_PESERTA, NAMA, JENIS_TES, LOKASI_UJIAN>>

IsHeaderRowPositional(row, hs) ==
    Len(row) >= Len(hs) /\ SubSeq(row, 1, Len(hs)) = hs

\* set(headers).issubset(set(row))
IsHeaderRow(row, hs) == Range(hs) \subseteq Range(row)

\* the positions of the columns labelled `label`, left to right
ColumnsLabelled(labels, label) ==
    SelectSeq([j \in DOMAIN labels |-> j], LAMBDA j : labels[j] = label)

\* the columns df[headers] selects: for each name of headers in turn, every
\* column so labelled
Selected(labels, hs) ==
    FlattenSeq([k \in DOMAIN hs |-> ColumnsLabelled(labels, hs[k])])

\* the rows from position `first` on, cut down to the columns `cols`
RowsFrom(g, first, cols) ==
    [k \in 1..(Len(g) - first + 1) |->
        [name |-> first + k - 2,
         cells |-> [c \in DOMAIN cols |-> g[first + k - 1][cols[c]]]]]

SubTableFromHeader(g, hr, hs) ==
    LET labels == g[hr + 1]
        cols == Selected(labels, hs)
    IN  [columns |-> [c \in DOMAIN cols |-> labels[cols[c]]],
         rows |-> RowsFrom(g, hr + 1, cols)]

\* df.columns = df.iloc[header_row]; df = df[header_row+1:]; df[headers]
SubTable(g, hr, hs) ==
    LET labels == g[hr + 1]
        cols == Selected(labels, hs)
    IN  [columns |-> [c \in DOMAIN cols |-> labels[cols[c]]],
         rows |-> RowsFrom(g, hr + 2, cols)]

\* repr of a str that holds no quote, and of a list of them
Quoted(t) == <<"'">> \o t \o <<"'">>

RECURSIVE JoinQuoted(_)
JoinQuoted(xs) ==
    IF xs = <<>> THEN <<>>
    ELSE IF Len(xs) = 1 THEN Quoted(xs[1])
    ELSE Quoted(xs[1]) \o <<",", " ">> \o JoinQuoted(Tail(xs))

ListRepr(xs) == <<"[">> \o JoinQuoted(xs) \o <<"]">>

HeadersText == <<"H", "e", "a", "d", "e", "r", "s", " ">>
NotFoundText ==
    <<" ", "n", "o", "t", " ", "f", "o", "u", "n", "d", " ", "i", "n", " ", "s", "h", "e", "e", "t", " ", "'">>
ExcelFileText ==
    <<"'", " ", "o", "f", " ", "t", "h", "e", " ", "E", "x", "c", "e", "l", " ", "f", "i", "l", "e">>

NotFoundMessageNoSheet(hs, sheet) ==
    HeadersText \o ListRepr(hs) \o NotFoundText \o ExcelFileText

\* f"Headers {headers} not found in sheet '{sheet_name}' of the Excel file"
NotFoundMessage(hs, sheet) ==
    HeadersText \o ListRepr(hs) \o NotFoundText \o sheet \o ExcelFileText

(***************************************************************************)
(* Inputs of the locator runs: sheets of at most MaxGridRows rows drawn     *)
(* from GridRows, read for two required fields in either order, and the     *)
(* sheet of scenario 1 read for the four fields of a category-only run.     *)
(***************************************************************************)
MaxGridRows == 3   \* most rows of an enumerated sheet

LowerNama == <<"n", "a", "m", "a">>
Title == <<"D", "A", "F", "T", "A", "R">>

GridRows ==
    {<<NAMA, JENIS_TES, <<"x">>>>,
     <<NAMA, JENIS_TES, NaN>>,
     <<JENIS_TES, <<"x">>, NAMA>>,
     <<NAMA, NAMA, JENIS_TES>>,
     <<NAMA, <<"x">>, NaN>>,
     <<LowerNama, JENIS_TES, <<"x">>>>,
     <<<<"x">>, <<"y">>, <<"x">>>>,
     <<<<"y">>, <<"x">>, NaN>>,
     <<NaN, NaN, NaN>>}

Grids == SeqsUpTo(GridRows, MaxGridRows)

HeaderLists == {<<NAMA, JENIS_TES>>, <<JENIS_TES, NAMA>>}
SheetNames == {<<"S", "1">>, <<"D", "a", "t", "a">>}

ScenarioGrid ==
    <<<<Title, NaN, NaN, NaN, NaN, NaN>>,
      <<NaN, NaN, NaN, NaN, NaN, NaN>>,
      <<NAMA, NaN, NaN, NaN, NaN, NaN>>,
      <<<<"N", "O">>, NAMA, NO_PESERTA, <<"x">>, LOKASI_UJIAN, JENIS_TES>>,
      <<<<"1">>, <<"y">>, <<"P", "1">>, NaN, <<"x">>, <<"C">>>>,
      <<<<"2">>, <<"x">>, <<"P", "2">>, NaN, <<"y">>, <<"C">>>>>>

InitLocate ==
    /\ pc = "locate"
    /\ \/ grid \in Grids /\ headers \in HeaderLists
       \/ grid = ScenarioGrid /\ headers = CategoryHeaders
    /\ sheet_name \in SheetNames
    /\ scan_row = 0
    /\ header_row = NoHeaderRow
    /\ located = NotLocated
    /\ IdleExpand /\ IdleResolve /\ IdleTables /\ IdleInput /\ IdleMissing
    /\ IdleSeparate /\ IdleMain

\* one iteration of `for i, row in df.iterrows()`
LocateScan ==
    /\ pc = "locate"
    /\ scan_row < Len(grid)
    /\ IF IsHeaderRow(grid[scan_row + 1], headers)
       THEN /\ header_row' = <<scan_row>>
            /\ pc' = "locate_found"
            /\ scan_row' = scan_row
       ELSE /\ scan_row' = scan_row + 1
            /\ UNCHANGED <<pc, header_row>>
    /\ UNCHANGED <<grid, headers, sheet_name, located, expandVars, resolveVars,
                   tableVars, inputVars, missingVars, separateVars, text_inputs>>

\* the loop ended with header_row still None: raise ValueError
LocateRaise ==
    /\ pc = "locate"
    /\ scan_row = Len(grid)
    /\ header_row = NoHeaderRow
    /\ located' = Outcome("ValueError", NotFoundMessage(headers, sheet_name))
    /\ pc' = "locate_raised"
    /\ UNCHANGED <<grid, headers, sheet_name, scan_row, header_row, expandVars,
                   resolveVars, tableVars, inputVars, missingVars, separateVars,
                   text_inputs>>

\* the three lines after the check, and the return
LocateReturn ==
    /\ pc = "locate_found"
    /\ located' = Outcome("returned", SubTable(grid, header_row[1], headers))
    /\ pc' = "locate_returned"
    /\ UNCHANGED <<grid, headers, sheet_name, scan_row, header_row, expandVars,
                   resolveVars, tableVars, inputVars, missingVars, separateVars,
                   text_inputs>>

NextLocate == LocateScan \/ LocateRaise \/ LocateReturn

SpecLocate == InitLocate /\ [][NextLocate]_vars

(***************************************************************************)
(* Properties of find_and_read_data.                                        *)
(***************************************************************************)
\* the positions of the rows of the sheet that hold every required field
MatchingRows ==
    {p \in DOMAIN grid :
        \A k \in DOMAIN headers : \E j \in DOMAIN grid[p] : grid[p][j] = headers[k]}

LowestMatch == CHOOSE p \in MatchingRows : \A q \in MatchingRows : p <= q

\* the cells that stand under the label h, left to right
RECURSIVE Under(_, _, _)
Under(labels, cells, h) ==
    IF labels = <<>> THEN <<>>
    ELSE (IF Head(labels) = h THEN <<Head(cells)>> ELSE <<>>)
         \o Under(Tail(labels), Tail(cells), h)

PlaceInHeaders(h) == CHOOSE k \in DOMAIN headers : headers[k] = h

\* C11: the row selected is the lowest-index row whose cells hold every
\* required field, wherever they stand in it; the frame returned holds exactly
\* the rows strictly below it, in order and under their own index labels, cut
\* down to the columns labelled by a required field, in the order of the
\* required fields (exactly the required fields when the header row names
\* each of them once).  The sheet of scenario 1 gives index 3 and 4 columns.
C11_LowestMatchingRowAndRowsBelow ==
    pc = "locate_returned" =>
        LET m == LowestMatch
            t == located.value
        IN  /\ MatchingRows # {}
            /\ header_row = <<m - 1>>
            /\ located.status = "returned"
            /\ Len(t.rows) = Len(grid) - m
            /\ \A k \in DOMAIN t.rows :
                  /\ t.rows[k].name = m + k - 1
                  /\ Len(t.rows[k].cells) = Len(t.columns)
                  /\ \A h \in Range(headers) :
                        Under(t.columns, t.rows[k].cells, h)
                            = Under(grid[m], grid[m + k], h)
            /\ Range(t.columns) = Range(headers)
            /\ \A a, b \in DOMAIN t.columns :
                  a < b => PlaceInHeaders(t.columns[a]) <= PlaceInHeaders(t.columns[b])
            /\ (\A h \in Range(headers) : Len(Under(grid[m], grid[m], h)) = 1)
                  => t.columns = headers
            /\ grid = ScenarioGrid => (header_row = <<3>> /\ Len(t.columns) = 4)

\* a header row that is not the first row and does not start with the
\* required fields in their order was selected, a later row holds the
\* required fields too, and rows were returned
C11_Witness ==
    /\ pc = "locate_returned"
    /\ header_row # <<0>>
    /\ SubSeq(grid[LowestMatch], 1, Len(headers)) # headers
    /\ Cardinality(MatchingRows) > 1
    /\ located.value.rows # <<>>

\* C12: the call raises the header-not-found error exactly when no row of
\* the sheet holds every required field; when it raises, no frame is
\* returned and no header row was chosen, and the text of the error holds
\* each required field name and the sheet name.
C12_NotFoundIffNoMatchingRow ==
    pc \in {"locate_returned", "locate_raised"} =>
        /\ (pc = "locate_raised") <=> (MatchingRows = {})
        /\ (located.status = "ValueError") <=> (pc = "locate_raised")
        /\ (located.status = "returned") <=> (pc = "locate_returned")
        /\ pc = "locate_raised" =>
              /\ header_row = NoHeaderRow
              /\ \A h \in Range(headers) : IsSubstring(h, located.value)
              /\ IsSubstring(sheet_name, located.value)

\* the error was raised for a sheet with rows, one of which holds some but
\* not all of the required fields
C12_Witness ==
    /\ pc = "locate_raised"
    /\ located.status = "ValueError"
    /\ \E p \in DOMAIN grid :
          /\ \E h \in Range(headers) : h \in Range(grid[p])
          /\ \E h \in Range(headers) : h \notin Range(grid[p])

(***************************************************************************)
(* main: detection of the names without a code, manual entry, the check    *)
(* that stops the run, and grouping.  One run of the script is modelled;    *)
(* every edit of a text box starts a new run from the top.                  *)
(***************************************************************************)
\* what the operator may leave in a code box: nothing, or a code
TextInputs == {<<>>, <<"9">>}

\* the frames main builds: every file was read for the same headers, so in a
\* run with an INSTANSI column every frame has every column, and in a run
\* without one no frame has the INSTANSI column
MainAffiliationLists ==
    {l \in MissingLists :
        l # <<>> /\ \A f \in DOMAIN l : l[f].columns = AllColumns}
MainCategoryLists ==
    {l \in MissingLists :
        l # <<>> /\ \A f \in DOMAIN l : l[f].columns = AllColumns \ {"INSTANSI"}}

\* the reference table: a code cell of the reference sheet may be empty
MainRefs == RefDicts({<<"A">>}, {<<"1">>, NaN}, MaxRef)

\* manual_mapping as built from the text of each box: `if ref_code:`
get_missing_ref_instansi(missing_instansi_list, texts) ==
    [instansi \in {n \in Range(missing_instansi_list) : texts[n] # <<>>} |->
        texts[instansi]]

MissingRefsIgnored(missing, manual) == <<>>

\* [inst for inst in missing_instansi
\*       if inst not in manual_mapping or not manual_mapping[inst]]
MissingRefs(missing, manual) ==
    SelectSeq(missing,
              LAMBDA inst : inst \notin DOMAIN manual \/ manual[inst] = <<>>)

\* the frames after separate_data: every frame the loop reached is what its
\* iteration left (a run without an INSTANSI column writes two columns into
\* the frame itself)
FramesAfter(dfs, mode, name, code, ref, manual) ==
    LET res(k) == SeparateFrameResult(<<>>, dfs[k], mode, name, code, ref, manual)
        raised == {k \in DOMAIN dfs : res(k).status = "KeyError"}
        reached(k) == \A j \in raised : k <= j
    IN  [k \in DOMAIN dfs |-> IF reached(k) THEN res(k).frame ELSE dfs[k]]

InitMain ==
    /\ pc = "main"
    /\ has_instansi_column \in BOOLEAN
    /\ IF has_instansi_column
       THEN /\ dataframes \in MainAffiliationLists
            /\ ref_instansi_dict \in MainRefs
            /\ selected_instansi_name = None
            /\ ref_instansi_code = None
       ELSE /\ dataframes \in MainCategoryLists
            /\ ref_instansi_dict = <<>>
            /\ \E choice \in {<<None, None>>, <<<<"Z">>, <<"7">>>>} :
                   /\ selected_instansi_name = choice[1]
                   /\ ref_instansi_code = choice[2]
    /\ manual_mapping = [k \in {} |-> None]
    /\ text_inputs = [k \in {} |-> None]
    /\ IdleExpand /\ IdleResolve /\ IdleMissing /\ IdleSeparate /\ IdleLocate

\* manual_mapping = {}; missing_instansi = find_missing_instansi(...);
\* `if missing_instansi:`
MainDetect ==
    /\ pc = "main"
    /\ IF has_instansi_column
       THEN LET r == find_missing_instansi(dataframes, ref_instansi_dict)
            IN  IF r.status = "KeyError"
                THEN pc' = "main_raised" /\ UNCHANGED missing_result
                ELSE /\ missing_result' = r.value
                     /\ pc' = IF r.value = <<>> THEN "main_separate"
                              ELSE "main_input"
       ELSE pc' = "main_separate" /\ UNCHANGED missing_result
    /\ UNCHANGED <<all_instansi, scanned, missing_instansi, expandVars,
                   resolveVars, tableVars, inputVars, separateVars, locateVars,
                   text_inputs>>

\* manual_mapping = get_missing_ref_instansi(missing_instansi), with the text
\* the operator left in the box of each name
MainManualInput ==
    /\ pc = "main_input"
    /\ \E texts \in [Range(missing_result) -> TextInputs] :
          /\ text_inputs' = texts
          /\ manual_mapping' = get_missing_ref_instansi(missing_result, texts)
    /\ pc' = "main_check"
    /\ UNCHANGED <<ref_instansi_dict, expandVars, resolveVars, inputVars,
                   missingVars, separateVars, locateVars>>

\* missing_refs = [...]; if missing_refs: st.warning(...); st.stop()
MainCheck ==
    /\ pc = "main_check"
    /\ pc' = IF MissingRefs(missing_result, manual_mapping) # <<>>
             THEN "main_stopped" ELSE "main_separate"
    /\ UNCHANGED <<expandVars, resolveVars, tableVars, inputVars, missingVars,
                   separateVars, locateVars, text_inputs>>

\* separated_data = separate_data(...); an exception ends the run in the
\* handler of main
MainSeparate ==
    /\ pc = "main_separate"
    /\ LET r == separate_data(dataframes, has_instansi_column,
                              selected_instansi_name, ref_instansi_code,
                              ref_instansi_dict, manual_mapping)
       IN  IF r.status = "KeyError"
           THEN pc' = "main_raised" /\ UNCHANGED final_separated
           ELSE pc' = "main_separated" /\ final_separated' = r.value
    /\ dataframes' = FramesAfter(dataframes, has_instansi_column,
                                 selected_instansi_name, ref_instansi_code,
                                 ref_instansi_dict, manual_mapping)
    /\ UNCHANGED <<has_instansi_column, selected_instansi_name, ref_instansi_code,
                   frame_idx, separated_dfs, expandVars, resolveVars, tableVars,
                   missingVars, locateVars, text_inputs>>

NextMain == MainDetect \/ MainManualInput \/ MainCheck \/ MainSeparate

SpecMain == InitMain /\ [][NextMain]_vars

(***************************************************************************)
(* Properties of the run of main.                                           *)
(***************************************************************************)
\* the reference table has an entry whose code is n or whose name is n up to
\* letter case
MatchedByReference(n) ==
    \E k \in DOMAIN ref_instansi_dict :
        \/ ref_instansi_dict[k].code = n
        \/ Upper(ref_instansi_dict[k].name) = Upper(n)

BucketRecords ==
    UNION {Range(final_separated[b].rows) : b \in DOMAIN final_separated}

\* C13: in a run with an INSTANSI column, grouping is reached only when the
\* operator left a non-empty code for every name find_missing_instansi
\* returned, and that code is the manual entry of the name; a run that
\* stopped at the check had a name without a code and grouped nothing; and
\* once grouping has returned, no record of a bucket carries None as its
\* code, every cleaned name of the input being matched by the reference
\* table or a key of the manual table.
C13_GroupingOnlyWhenEveryMissingNameHasCode ==
    /\ (has_instansi_column /\ pc \in {"main_separate", "main_separated"}) =>
          \A n \in Range(missing_result) :
              /\ n \in DOMAIN text_inputs /\ text_inputs[n] # <<>>
              /\ n \in DOMAIN manual_mapping /\ manual_mapping[n] = text_inputs[n]
    /\ pc = "main_stopped" =>
          /\ has_instansi_column
          /\ \E n \in Range(missing_result) : text_inputs[n] = <<>>
    /\ pc \in {"main", "main_input", "main_check", "main_stopped", "main_raised",
               "main_separate"} => final_separated = <<>>
    /\ (has_instansi_column /\ pc = "main_separated") =>
          /\ \A r \in BucketRecords : r.REF_INSTANSI # None
          /\ \A f \in DOMAIN dataframes : \A n \in NamesOf(dataframes[f]) :
                MatchedByReference(n) \/ n \in DOMAIN manual_mapping

\* grouping was reached after the operator gave a code to a missing name:
\* one record of a bucket carries that code, another one a code of the
\* reference table
C13_Witness ==
    /\ has_instansi_column
    /\ pc = "main_separated"
    /\ missing_result # <<>>
    /\ \E r \in BucketRecords : r.REF_INSTANSI = <<"9">> /\ r.INSTANSI \in Range(missing_result)
    /\ \E r \in BucketRecords : r.REF_INSTANSI = <<"1">>

(***************************************************************************)
(* The operations together.                                                 *)
(***************************************************************************)
Init ==
    InitExpand \/ InitResolve \/ InitMissing \/ InitSeparate \/ InitLocate \/ InitMain

Next ==
    NextExpand \/ NextResolve \/ NextMissing \/ NextSeparate \/ NextLocate \/ NextMain

Spec == Init /\ [][Next]_vars

====
